---- MODULE Spec2Model ----
(***************************************************************************)
(* Model of the silver-mimblewimble ledger state machine                   *)
(* (src/src/lib.rs and the value types it uses).                           *)
(*                                                                         *)
(* Byte strings are modelled by their length and an abstract content;     *)
(* digests are collision-free (the content of a digest is its preimage).   *)
(* u64 amounts are modelled on AmountBits bits, so that sums wrap at       *)
(* Modulus as the release build's sums wrap at 2^64.                       *)
(***************************************************************************)
EXTENDS Integers, Sequences, FiniteSets, TLC

VARIABLES
    parameters,       \* MimblewimbleState.parameters
    block_height,     \* MimblewimbleState.block_height
    utxo_set,         \* MimblewimbleState.utxo_set  (a Vec: a sequence)
    kernel_set,       \* MimblewimbleState.kernel_set (a Vec: a sequence)
    overflow_checks,  \* build profile: TRUE = arithmetic overflow panics, FALSE = it wraps
    last,             \* the last completed call: operation, arguments, result
    pre,              \* the ledger as it was when the last call started
    pc,               \* concurrent callers: position of each thread
    call,             \* concurrent callers: the call each thread is making
    local,            \* concurrent callers: locals of each thread
    utxo_lock,        \* RwLock of utxo_set: readers and writer
    kernel_lock,      \* RwLock of kernel_set: readers and writer
    height_lock       \* RwLock of block_height: readers and writer

ledger == <<parameters, block_height, utxo_set, kernel_set, overflow_checks>>
history == <<last, pre>>
threads == <<pc, call, local, utxo_lock, kernel_lock, height_lock>>
vars == <<parameters, block_height, utxo_set, kernel_set, overflow_checks,
          last, pre, pc, call, local, utxo_lock, kernel_lock, height_lock>>

----
(* Bounds of the model *)

AmountBits == 2          \* width of an amount in the model (u64 in the code)
MaxUtxo == 3             \* longest unspent-output vector explored
MaxKernels == 3          \* longest kernel history explored
MaxBatch == 2            \* longest batch given to create_block
MaxInputs == 2           \* most inputs of a transaction given to verify_transaction
MaxOutputs == 2          \* most outputs of a transaction given to verify_transaction
MaxMerkle == 5           \* longest batch whose Merkle root is computed

Modulus == 2 ^ AmountBits
Half == Modulus \div 2

----
(* Byte strings and digests *)

Bytes(len, val) == [len |-> len, val |-> val]
EmptyBytes == Bytes(0, <<>>)
is_empty(b) == b.len = 0

Sha512Len == 64
Blake3Len == 32
\* hex::encode(Sha512(..)).into_bytes(): two hex characters per digest byte
HexSha512(preimage) == Bytes(2 * Sha512Len, <<"sha512", preimage>>)
Blake3(preimage) == Bytes(Blake3Len, <<"blake3", preimage>>)
ZeroDigest == Bytes(Blake3Len, <<"zero">>)

RECURSIVE SeqsUpTo(_, _)
SeqsUpTo(S, n) ==
    IF n = 0 THEN {<<>>}
    ELSE LET shorter == SeqsUpTo(S, n - 1)
         IN shorter \cup {Append(s, x) : s \in {t \in shorter : Len(t) = n - 1}, x \in S}

Range(s) == {s[i] : i \in 1..Len(s)}

----
(* Parameters (src/src/parameters.rs) *)

DefaultParameters ==
    [commitment_scheme |-> "pedersen",
     range_proof_bits |-> 64,
     max_transaction_size |-> 1000000,
     max_block_size |-> 10000000,
     target_block_time |-> 30,
     difficulty_adjustment_interval |-> 2016,
     pruning_enabled |-> TRUE,
     pruning_interval |-> 10000,
     max_utxo_set_size |-> 1000000]

MinRangeProofBits == 32

\* a validation without the comparison of the two size limits
validate_without_block_size(p) ==
    IF p.range_proof_bits < MinRangeProofBits THEN "InvalidParameter"
    ELSE IF p.max_transaction_size = 0 THEN "InvalidParameter"
    ELSE IF p.target_block_time = 0 THEN "InvalidParameter"
    ELSE IF p.difficulty_adjustment_interval = 0 THEN "InvalidParameter"
    ELSE "Ok"

validate(p) ==
    IF p.range_proof_bits < MinRangeProofBits THEN "InvalidParameter"
    ELSE IF p.max_transaction_size = 0 THEN "InvalidParameter"
    ELSE IF p.max_block_size < p.max_transaction_size THEN "InvalidParameter"
    ELSE IF p.target_block_time = 0 THEN "InvalidParameter"
    ELSE IF p.difficulty_adjustment_interval = 0 THEN "InvalidParameter"
    ELSE "Ok"

----
(* RangeProof (src/src/range_proof.rs) *)

RangeProof(proof_data) == [proof_data |-> proof_data]

RangeProof_create(value, p) ==
    RangeProof(HexSha512(<<value, p.range_proof_bits>>))

RangeProof_verify(rp, p) ==
    IF rp.proof_data.len < p.range_proof_bits \div 8 THEN FALSE ELSE TRUE

----
(* Commitment (src/src/commitment.rs) *)

Commitment(commitment, value, blinding, range_proof) ==
    [commitment |-> commitment, value |-> value,
     blinding |-> blinding, range_proof |-> range_proof]

Commitment_new(value, blinding, range_proof) ==
    Commitment(HexSha512(<<value, blinding>>), value, blinding, range_proof)

----
(* Kernel (src/src/kernel.rs) *)

Kernel(features, fee, lock_height, excess, signature) ==
    [features |-> features, fee |-> fee, lock_height |-> lock_height,
     excess |-> excess, signature |-> signature]

\* a verification that does not look at the signature
Kernel_verify_no_signature(k, p) ==
    IF is_empty(k.excess) THEN FALSE
    ELSE LET kernel_hash == HexSha512(<<k.features, k.fee, k.lock_height, k.excess>>)
         IN ~is_empty(kernel_hash)

Kernel_verify(k, p) ==
    IF is_empty(k.excess) THEN FALSE
    ELSE IF is_empty(k.signature) THEN FALSE
    ELSE LET kernel_hash == HexSha512(<<k.features, k.fee, k.lock_height, k.excess>>)
         IN ~is_empty(kernel_hash)

----
(* Transaction (src/src/transaction.rs) *)

Transaction(version, inputs, outputs, kernel, fee) ==
    [version |-> version, inputs |-> inputs, outputs |-> outputs,
     kernel |-> kernel, fee |-> fee]

----
(* MimblewimbleState::verify_transaction (src/src/lib.rs) *)

\* u64 addition: the exact sum and whether it leaves the unsigned range
add_overflows(a, b) == a + b >= Modulus
wrapping_add(a, b) == (a + b) % Modulus

\* Iterator::sum::<u64>() over the amounts of a sequence of commitments, as the
\* release build computes it (each addition wraps)
RECURSIVE sum(_)
sum(cs) ==
    IF cs = <<>> THEN 0
    ELSE wrapping_add(sum(SubSeq(cs, 1, Len(cs) - 1)), cs[Len(cs)].value)

\* whether some addition of that sum overflows (the debug build panics there)
RECURSIVE sum_overflows(_)
sum_overflows(cs) ==
    IF cs = <<>> THEN FALSE
    ELSE \/ sum_overflows(SubSeq(cs, 1, Len(cs) - 1))
         \/ add_overflows(sum(SubSeq(cs, 1, Len(cs) - 1)), cs[Len(cs)].value)

\* lines 91-95: every input's digest is found in the unspent-output vector
inputs_exist(utxos, tx) ==
    \A i \in 1..Len(tx.inputs) :
        \E j \in 1..Len(utxos) : utxos[j].commitment = tx.inputs[i].commitment

\* lines 98-107: the balance check on the wrapped sums
balance_holds(tx) ==
    sum(tx.inputs) = wrapping_add(sum(tx.outputs), tx.fee)

\* lines 98-105: some addition of the balance check overflows
balance_overflows(tx) ==
    \/ sum_overflows(tx.inputs)
    \/ sum_overflows(tx.outputs)
    \/ add_overflows(sum(tx.outputs), tx.fee)

\* lines 110-114: every output's range proof verifies
range_proofs_verify(p, tx) ==
    \A i \in 1..Len(tx.outputs) : RangeProof_verify(tx.outputs[i].range_proof, p)

OkBool(b, wrapped) == [kind |-> "Ok", value |-> b, wrapped |-> wrapped]
Panic == [kind |-> "panic", value |-> FALSE, wrapped |-> FALSE]

\* The result of verify_transaction(tx) on the unspent-output vector utxos:
\* Ok(true), Ok(false) or a panic (arithmetic overflow with overflow checks on).
\* wrapped records that the balance was compared on sums that had wrapped.
verify_transaction_result(utxos, p, checks, tx) ==
    IF ~inputs_exist(utxos, tx) THEN OkBool(FALSE, FALSE)
    ELSE IF balance_overflows(tx) /\ checks THEN Panic
    ELSE IF ~balance_holds(tx) THEN OkBool(FALSE, balance_overflows(tx))
    ELSE IF ~range_proofs_verify(p, tx) THEN OkBool(FALSE, balance_overflows(tx))
    ELSE OkBool(Kernel_verify(tx.kernel, p), balance_overflows(tx))

----
(* MimblewimbleState::compute_merkle_root (src/src/lib.rs) *)

\* bincode::serialize(tx).unwrap_or_default(): the serialized bytes of a transaction
serialize(tx) == <<"bincode", tx>>

\* lines 154-161: one leaf digest per transaction, in sequence order
leaf_hashes(transactions) ==
    [i \in 1..Len(transactions) |-> Blake3(serialize(transactions[i]))]

\* a combination that forgets which digest was on the left
pair_unordered(left, right) == <<"pair", {left, right}>>

\* lines 166-172: the hasher is fed the left digest, then the right one
pair(left, right) == <<"pair", left, right>>

\* a pass that promotes the odd one out unpaired
next_level_promoting(hashes) ==
    [i \in 1..((Len(hashes) + 1) \div 2) |->
        IF 2 * i <= Len(hashes)
        THEN Blake3(pair(hashes[2 * i - 1], hashes[2 * i]))
        ELSE hashes[2 * i - 1]]

\* lines 164-175: one pass; pair i combines hashes[2i-1] with hashes[2i], or with
\* itself when it is the odd one out
next_level(hashes) ==
    [i \in 1..((Len(hashes) + 1) \div 2) |->
        IF 2 * i <= Len(hashes)
        THEN Blake3(pair(hashes[2 * i - 1], hashes[2 * i]))
        ELSE Blake3(pair(hashes[2 * i - 1], hashes[2 * i - 1]))]

\* lines 163-178: passes until one digest remains
RECURSIVE reduce(_)
reduce(hashes) ==
    IF Len(hashes) > 1 THEN reduce(next_level(hashes)) ELSE hashes[1]

compute_merkle_root(transactions) ==
    IF transactions = <<>> THEN ZeroDigest
    ELSE reduce(leaf_hashes(transactions))

----
(* The ledger: MimblewimbleState (src/src/lib.rs) *)

MIMBLEWIMBLE_VERSION == 1

\* MimblewimbleState::new: an error when the parameters do not validate
\* a constructor that skips the validation of its parameters
new_unvalidated(p) ==
    [kind |-> "Ok", block_height |-> 0, utxo_set |-> <<>>, kernel_set |-> <<>>]

new(p) ==
    IF validate(p) # "Ok"
    THEN [kind |-> validate(p)]
    ELSE [kind |-> "Ok", block_height |-> 0, utxo_set |-> <<>>, kernel_set |-> <<>>]

\* a removal that drops, for each input, only the first entry with its digest
RECURSIVE remove_first_match(_, _)
remove_first_match(utxos, inputs) ==
    IF inputs = <<>> THEN utxos
    ELSE LET hits == {j \in 1..Len(utxos) : utxos[j].commitment = inputs[1].commitment}
             first == IF hits = {} THEN 0 ELSE CHOOSE j \in hits : \A k \in hits : j <= k
         IN remove_first_match(
                IF first = 0 THEN utxos
                ELSE SubSeq(utxos, 1, first - 1) \o SubSeq(utxos, first + 1, Len(utxos)),
                Tail(inputs))

\* lines 71-73: for each input, retain the entries whose digest differs from it
RECURSIVE remove_inputs(_, _)
remove_inputs(utxos, inputs) ==
    IF inputs = <<>> THEN utxos
    ELSE remove_inputs(
            SelectSeq(utxos, LAMBDA u : u.commitment # inputs[1].commitment),
            Tail(inputs))

\* lines 76-78: push every output
push_outputs(utxos, outputs) == utxos \o outputs

Snapshot == [utxo_set |-> utxo_set, kernel_set |-> kernel_set, block_height |-> block_height]

NoBlock == [header |-> <<>>, transactions |-> <<>>]

\* the record of a completed call
Done(op, txs, kind, verdict, size, block) ==
    [op |-> op, txs |-> txs, kind |-> kind, verdict |-> verdict,
     size |-> size, block |-> block]

NoVerdict == [kind |-> "none", value |-> FALSE, wrapped |-> FALSE]
NoCall == Done("none", <<>>, "none", NoVerdict, 0, NoBlock)
\* a thread that is making no call, and its locals
Idle == [op |-> "none", txs |-> <<>>]
NoLocals == [verdict |-> NoVerdict, i |-> 0]

----
(* Callers' inputs *)

Threads == {"t1", "t2"}
NoThread == "none"
Unlocked == [readers |-> {}, writer |-> NoThread]

PlainKernel(fee) == Kernel("Plain", fee, 0, Bytes(32, <<1>>), Bytes(64, <<2>>))

Output(value, blinding) ==
    Commitment_new(value, blinding, RangeProof_create(value, DefaultParameters))

cA == Output(1, "a")
cB == Output(1, "b")
cZ == Output(0, "z")

\* creates cA out of nothing: inputs 0, outputs 1
TxCoinbase == Transaction(1, <<>>, <<cA>>, PlainKernel(0), 0)
\* spends cA into cB
TxSpend == Transaction(1, <<cA>>, <<cB>>, PlainKernel(0), 0)
\* spends cA into the fee
TxFee == Transaction(1, <<cA>>, <<>>, PlainKernel(1), 1)
\* a balanced transaction without inputs: one output of amount 0
TxZero == Transaction(1, <<>>, <<cZ>>, PlainKernel(0), 0)

LedgerTransactions == {TxCoinbase, TxSpend, TxFee, TxZero}
\* batches for create_block: the two transactions that spend cA, in any order
Batches == SeqsUpTo({TxSpend, TxFee}, MaxBatch)
Times == {1, 2}
ConstructionParameters ==
    {DefaultParameters, [DefaultParameters EXCEPT !.range_proof_bits = 16]}

----
(* The ledger's operations, each call atomic (one caller) *)

InitThreads ==
    /\ pc = [t \in Threads |-> "idle"]
    /\ call = [t \in Threads |-> Idle]
    /\ local = [t \in Threads |-> NoLocals]
    /\ utxo_lock = Unlocked
    /\ kernel_lock = Unlocked
    /\ height_lock = Unlocked

Init ==
    /\ \E p \in ConstructionParameters :
          /\ new(p).kind = "Ok"
          /\ parameters = p
          /\ block_height = new(p).block_height
          /\ utxo_set = new(p).utxo_set
          /\ kernel_set = new(p).kernel_set
    /\ overflow_checks \in BOOLEAN
    /\ last = NoCall
    /\ pre = Snapshot
    /\ InitThreads

\* an add_transaction that puts the kernel at the front of the kernel history
add_transaction_prepending(transaction) ==
    LET v == verify_transaction_result(utxo_set, parameters, overflow_checks, transaction)
        utxos == push_outputs(remove_inputs(utxo_set, transaction.inputs),
                              transaction.outputs)
    IN /\ Len(utxos) <= MaxUtxo
       /\ Len(kernel_set) < MaxKernels
       /\ pre' = Snapshot
       /\ utxo_set' = utxos
       /\ kernel_set' = <<transaction.kernel>> \o kernel_set
       /\ last' = Done("add_transaction", <<transaction>>, "Ok", v, 0, NoBlock)
       /\ UNCHANGED <<parameters, block_height, overflow_checks>>
       /\ UNCHANGED threads

\* lines 65-85.  The boolean of verify_transaction is dropped by `?`: only a
\* panic of the verification stops the call before the mutation.
add_transaction(transaction) ==
    LET v == verify_transaction_result(utxo_set, parameters, overflow_checks, transaction)
        utxos == push_outputs(remove_inputs(utxo_set, transaction.inputs),
                              transaction.outputs)
    IN /\ Len(utxos) <= MaxUtxo
       /\ Len(kernel_set) < MaxKernels
       /\ pre' = Snapshot
       /\ IF v.kind = "panic"
          THEN /\ UNCHANGED <<utxo_set, kernel_set>>
               /\ last' = Done("add_transaction", <<transaction>>, "panic", v, 0, NoBlock)
          ELSE /\ utxo_set' = utxos
               /\ kernel_set' = Append(kernel_set, transaction.kernel)
               /\ last' = Done("add_transaction", <<transaction>>, "Ok", v, 0, NoBlock)
       /\ UNCHANGED <<parameters, block_height, overflow_checks>>
       /\ UNCHANGED threads

\* a verification that removes the inputs it has found
verify_transaction_spending(transaction) ==
    LET v == verify_transaction_result(utxo_set, parameters, overflow_checks, transaction)
    IN /\ pre' = Snapshot
       /\ last' = Done("verify_transaction", <<transaction>>, v.kind, v, 0, NoBlock)
       /\ utxo_set' = remove_inputs(utxo_set, transaction.inputs)
       /\ UNCHANGED <<parameters, block_height, kernel_set, overflow_checks>>
       /\ UNCHANGED threads

\* lines 88-118
verify_transaction(transaction) ==
    LET v == verify_transaction_result(utxo_set, parameters, overflow_checks, transaction)
    IN /\ pre' = Snapshot
       /\ last' = Done("verify_transaction", <<transaction>>, v.kind, v, 0, NoBlock)
       /\ UNCHANGED ledger
       /\ UNCHANGED threads

\* a block assembly that advances the stored height
create_block_advancing(transactions, now) ==
    LET header == [version |-> MIMBLEWIMBLE_VERSION,
                   height |-> block_height,
                   timestamp |-> now,
                   previous_hash |-> ZeroDigest,
                   merkle_root |-> compute_merkle_root(transactions)]
        block == [header |-> header, transactions |-> transactions]
    IN /\ pre' = Snapshot
       /\ last' = Done("create_block", transactions, "Ok", NoVerdict, 0, block)
       /\ block_height' = block_height + 1
       /\ UNCHANGED <<parameters, utxo_set, kernel_set, overflow_checks>>
       /\ UNCHANGED threads

\* a create_block that refuses a batch in which two transactions spend one output
create_block_refusing_double_spend(transactions, now) ==
    LET double_spend ==
            \E i, j \in 1..Len(transactions) :
                /\ i < j
                /\ \E a \in 1..Len(transactions[i].inputs),
                      b \in 1..Len(transactions[j].inputs) :
                        transactions[i].inputs[a].commitment
                            = transactions[j].inputs[b].commitment
        header == [version |-> MIMBLEWIMBLE_VERSION,
                   height |-> block_height,
                   timestamp |-> now,
                   previous_hash |-> ZeroDigest,
                   merkle_root |-> compute_merkle_root(transactions)]
        block == [header |-> header, transactions |-> transactions]
    IN /\ pre' = Snapshot
       /\ IF double_spend
          THEN last' = Done("create_block", transactions, "DoubleSpend", NoVerdict, 0, NoBlock)
          ELSE last' = Done("create_block", transactions, "Ok", NoVerdict, 0, block)
       /\ UNCHANGED ledger
       /\ UNCHANGED threads

\* a create_block whose Merkle root also covers the timestamp of the header
create_block_rooting_time(transactions, now) ==
    LET panics == \E i \in 1..Len(transactions) :
                     verify_transaction_result(utxo_set, parameters, overflow_checks,
                                               transactions[i]).kind = "panic"
        header == [version |-> MIMBLEWIMBLE_VERSION,
                   height |-> block_height,
                   timestamp |-> now,
                   previous_hash |-> ZeroDigest,
                   merkle_root |-> Blake3(pair(compute_merkle_root(transactions),
                                               Bytes(8, <<now>>)))]
        block == [header |-> header, transactions |-> transactions]
    IN /\ pre' = Snapshot
       /\ IF panics
          THEN last' = Done("create_block", transactions, "panic", NoVerdict, 0, NoBlock)
          ELSE last' = Done("create_block", transactions, "Ok", NoVerdict, 0, block)
       /\ UNCHANGED ledger
       /\ UNCHANGED threads

\* lines 121-144.  Each verification's boolean is dropped by `?`.
create_block(transactions, now) ==
    LET panics == \E i \in 1..Len(transactions) :
                     verify_transaction_result(utxo_set, parameters, overflow_checks,
                                               transactions[i]).kind = "panic"
        header == [version |-> MIMBLEWIMBLE_VERSION,
                   height |-> block_height,
                   timestamp |-> now,
                   previous_hash |-> ZeroDigest,
                   merkle_root |-> compute_merkle_root(transactions)]
        block == [header |-> header, transactions |-> transactions]
    IN /\ pre' = Snapshot
       /\ IF panics
          THEN last' = Done("create_block", transactions, "panic", NoVerdict, 0, NoBlock)
          ELSE last' = Done("create_block", transactions, "Ok", NoVerdict, 0, block)
       /\ UNCHANGED ledger
       /\ UNCHANGED threads

\* lines 182-184
get_block_height ==
    /\ pre' = Snapshot
    /\ last' = Done("block_height", <<>>, "Ok", NoVerdict, block_height, NoBlock)
    /\ UNCHANGED ledger
    /\ UNCHANGED threads

\* lines 187-189
utxo_set_size ==
    /\ pre' = Snapshot
    /\ last' = Done("utxo_set_size", <<>>, "Ok", NoVerdict, Len(utxo_set), NoBlock)
    /\ UNCHANGED ledger
    /\ UNCHANGED threads

\* lines 192-194
kernel_set_size ==
    /\ pre' = Snapshot
    /\ last' = Done("kernel_set_size", <<>>, "Ok", NoVerdict, Len(kernel_set), NoBlock)
    /\ UNCHANGED ledger
    /\ UNCHANGED threads

AddTransaction == \E tx \in LedgerTransactions : add_transaction(tx)
VerifyTransaction == \E tx \in LedgerTransactions : verify_transaction(tx)
CreateBlock == \E txs \in Batches, now \in Times : create_block(txs, now)

Next ==
    \/ AddTransaction
    \/ VerifyTransaction
    \/ CreateBlock
    \/ get_block_height
    \/ utxo_set_size
    \/ kernel_set_size

Spec == Init /\ [][Next]_vars

----
(* verify_transaction as a function of its inputs alone: any ledger, any transaction *)

Values == {1, Half}
Fees == {0, 1, Modulus - 1}

\* what a caller may claim to spend: the digest of cA or cB, with any amount
InputCommitments ==
    {[cA EXCEPT !.value = v] : v \in Values} \cup {cB}
\* outputs with a range proof of exactly range_proof_bits / 8 bytes, and one byte short
OutputCommitments ==
    {Commitment_new(v, "o", RangeProof(Bytes(8, <<v>>))) : v \in Values}
        \cup {Commitment_new(1, "o", RangeProof(Bytes(7, <<1>>)))}
Kernels ==
    {PlainKernel(0),
     Kernel("Plain", 0, 0, EmptyBytes, Bytes(64, <<2>>)),
     Kernel("Plain", 0, 0, Bytes(32, <<1>>), EmptyBytes)}

Transactions ==
    {Transaction(1, ins, outs, k, fee) :
        ins \in SeqsUpTo(InputCommitments, MaxInputs),
        outs \in SeqsUpTo(OutputCommitments, MaxOutputs),
        k \in Kernels, fee \in Fees}

\* Every vector of commitments is a reachable unspent-output vector: add_transaction
\* pushes the outputs of any transaction it is given.
VerifyLedgers == {<<>>, <<cA>>}

InitVerify ==
    /\ parameters = DefaultParameters
    /\ block_height = 0
    /\ utxo_set \in VerifyLedgers
    /\ kernel_set = <<>>
    /\ overflow_checks \in BOOLEAN
    /\ \E tx \in Transactions :
          last = Done("verify_transaction", <<tx>>, "pending", NoVerdict, 0, NoBlock)
    /\ pre = Snapshot
    /\ InitThreads

VerifyPending ==
    /\ last.kind = "pending"
    /\ verify_transaction(last.txs[1])

SpecVerify == InitVerify /\ [][VerifyPending]_vars

----
(* Parameters, construction and range proofs as functions (specification SpecParams): *)
(* a caller holds a Parameters value and no ledger, and makes one call with it.       *)

\* the bit widths around the two thresholds: MinRangeProofBits, and eight times the
\* length of a proof (the comparison of RangeProof::verify)
RangeProofBits ==
    {16, MinRangeProofBits - 1, MinRangeProofBits, DefaultParameters.range_proof_bits,
     8 * (2 * Sha512Len) + 7, 8 * (2 * Sha512Len + 1)}
TransactionSizes == {0, 1, DefaultParameters.max_transaction_size}
BlockSizes == {0, 1, DefaultParameters.max_block_size}
BlockTimes == {0, DefaultParameters.target_block_time}
AdjustmentIntervals == {0, DefaultParameters.difficulty_adjustment_interval}

ParameterValues ==
    {[DefaultParameters EXCEPT !.range_proof_bits = bits,
                               !.max_transaction_size = tx_size,
                               !.max_block_size = block_size,
                               !.target_block_time = time,
                               !.difficulty_adjustment_interval = interval] :
        bits \in RangeProofBits, tx_size \in TransactionSizes, block_size \in BlockSizes,
        time \in BlockTimes, interval \in AdjustmentIntervals}

Amounts == 0..(Modulus - 1)

\* no MimblewimbleState value: new has not been called, or has returned an Err
NoLedger == [utxo_set |-> <<>>, kernel_set |-> <<>>, block_height |-> -1]

InitParams ==
    /\ parameters \in ParameterValues
    /\ block_height = NoLedger.block_height
    /\ utxo_set = NoLedger.utxo_set
    /\ kernel_set = NoLedger.kernel_set
    /\ overflow_checks \in BOOLEAN
    /\ last = Done("none", <<>>, "pending", NoVerdict, 0, NoBlock)
    /\ pre = Snapshot
    /\ InitThreads

\* parameters.validate()
Validate ==
    /\ last.kind = "pending"
    /\ pre' = Snapshot
    /\ last' = Done("validate", <<>>, validate(parameters), NoVerdict, 0, NoBlock)
    /\ UNCHANGED ledger
    /\ UNCHANGED threads

\* MimblewimbleState::new(parameters): the ledger exists only when Ok is returned
New ==
    /\ last.kind = "pending"
    /\ pre' = Snapshot
    /\ LET state == new(parameters)
       IN /\ last' = Done("new", <<>>, state.kind, NoVerdict, 0, NoBlock)
          /\ IF state.kind = "Ok"
             THEN /\ block_height' = state.block_height
                  /\ utxo_set' = state.utxo_set
                  /\ kernel_set' = state.kernel_set
             ELSE UNCHANGED <<block_height, utxo_set, kernel_set>>
    /\ UNCHANGED <<parameters, overflow_checks>>
    /\ UNCHANGED threads

\* RangeProof::create(amount, &parameters)?.verify(&parameters); the amount is kept
\* as the argument of the call
RangeProofRoundTrip ==
    /\ last.kind = "pending"
    /\ pre' = Snapshot
    /\ \E amount \in Amounts :
          last' = Done("range_proof", <<amount>>, "Ok",
                       OkBool(RangeProof_verify(RangeProof_create(amount, parameters),
                                                parameters), FALSE),
                       0, NoBlock)
    /\ UNCHANGED ledger
    /\ UNCHANGED threads

NextParams == Validate \/ New \/ RangeProofRoundTrip

SpecParams == InitParams /\ [][NextParams]_vars

----
(* create_block as a function of its batch (specification SpecMerkle) *)

MerkleTransactions == {TxSpend, TxFee}
MerkleBatches == SeqsUpTo(MerkleTransactions, MaxMerkle)

InitMerkle ==
    /\ parameters = DefaultParameters
    /\ block_height = new(parameters).block_height
    /\ utxo_set = new(parameters).utxo_set
    /\ kernel_set = new(parameters).kernel_set
    /\ overflow_checks \in BOOLEAN
    /\ \E txs \in MerkleBatches :
          last = Done("create_block", txs, "pending", NoVerdict, 0, NoBlock)
    /\ pre = Snapshot
    /\ InitThreads

MerklePending ==
    /\ last.kind = "pending"
    /\ \E now \in Times : create_block(last.txs, now)

SpecMerkle == InitMerkle /\ [][MerklePending]_vars

----
(* add_transaction as a function of the ledger and the transaction (specification *)
(* SpecApply): one call on each ledger of VerifyLedgers with each transaction.     *)

InitApply ==
    /\ parameters = DefaultParameters
    /\ block_height = 0
    /\ utxo_set \in VerifyLedgers
    /\ kernel_set = <<>>
    /\ overflow_checks \in BOOLEAN
    /\ \E tx \in Transactions :
          last = Done("add_transaction", <<tx>>, "pending", NoVerdict, 0, NoBlock)
    /\ pre = Snapshot
    /\ InitThreads

ApplyPending ==
    /\ last.kind = "pending"
    /\ add_transaction(last.txs[1])

SpecApply == InitApply /\ [][ApplyPending]_vars

----
(* The ledger's operations called by concurrent threads (specification SpecConc). *)
(* Each RwLock guard is taken in one step and the guarded access is another step.  *)

\* parking_lot::RwLock: read() waits while a writer holds the lock
read_available(lock) == lock.writer = NoThread

\* a write() that does not wait for the readers
write_available_among_readers(lock) == lock.writer = NoThread

\* parking_lot::RwLock: write() waits while a writer or any reader holds the lock
write_available(lock) == lock.readers = {} /\ lock.writer = NoThread

read_locked(lock, t) == [lock EXCEPT !.readers = @ \cup {t}]
read_unlocked(lock, t) == [lock EXCEPT !.readers = @ \ {t}]
write_locked(lock, t) == [lock EXCEPT !.writer = t]
write_unlocked(lock, t) == [lock EXCEPT !.writer = NoThread]

ConcTransactions == {TxCoinbase, TxSpend, TxFee}
\* batches for a concurrent create_block: what matters is how many verifications it makes
ConcBatches == SeqsUpTo({TxSpend}, MaxBatch)

\* the calls in flight that will still push outputs and a kernel
AddsInFlight == {u \in Threads : call[u].op = "add_transaction"}

RECURSIVE OutputsInFlight(_)
OutputsInFlight(us) ==
    IF us = {} THEN 0
    ELSE LET u == CHOOSE x \in us : TRUE
         IN Len(call[u].txs[1].outputs) + OutputsInFlight(us \ {u})

Goto(t, label) == pc' = [pc EXCEPT ![t] = label]
Return(t) ==
    /\ pc' = [pc EXCEPT ![t] = "idle"]
    /\ call' = [call EXCEPT ![t] = Idle]
    /\ local' = [local EXCEPT ![t] = NoLocals]

\* a thread calls add_transaction(tx); its first statement calls verify_transaction
call_add_transaction(t, tx) ==
    /\ pc[t] = "idle"
    /\ Len(kernel_set) + Cardinality(AddsInFlight) < MaxKernels
    /\ Len(utxo_set) + OutputsInFlight(AddsInFlight) + Len(tx.outputs) <= MaxUtxo
    /\ call' = [call EXCEPT ![t] = [op |-> "add_transaction", txs |-> <<tx>>]]
    /\ local' = [local EXCEPT ![t] = [verdict |-> NoVerdict, i |-> 1]]
    /\ Goto(t, "verify_lock")
    /\ UNCHANGED <<ledger, history, utxo_lock, kernel_lock, height_lock>>

call_verify_transaction(t, tx) ==
    /\ pc[t] = "idle"
    /\ call' = [call EXCEPT ![t] = [op |-> "verify_transaction", txs |-> <<tx>>]]
    /\ local' = [local EXCEPT ![t] = [verdict |-> NoVerdict, i |-> 1]]
    /\ Goto(t, "verify_lock")
    /\ UNCHANGED <<ledger, history, utxo_lock, kernel_lock, height_lock>>

\* create_block(transactions): the loop verifies transactions[1], transactions[2], ...
call_create_block(t, transactions) ==
    /\ pc[t] = "idle"
    /\ call' = [call EXCEPT ![t] = [op |-> "create_block", txs |-> transactions]]
    /\ local' = [local EXCEPT ![t] = [verdict |-> NoVerdict, i |-> 1]]
    /\ Goto(t, IF transactions = <<>> THEN "height_lock" ELSE "verify_lock")
    /\ UNCHANGED <<ledger, history, utxo_lock, kernel_lock, height_lock>>

call_getter(t, op, label) ==
    /\ pc[t] = "idle"
    /\ call' = [call EXCEPT ![t] = [op |-> op, txs |-> <<>>]]
    /\ Goto(t, label)
    /\ UNCHANGED <<ledger, history, local, utxo_lock, kernel_lock, height_lock>>

\* lib.rs line 90: let utxo_set = self.utxo_set.read();
verify_lock(t) ==
    /\ pc[t] = "verify_lock"
    /\ read_available(utxo_lock)
    /\ utxo_lock' = read_locked(utxo_lock, t)
    /\ Goto(t, "verify_body")
    /\ UNCHANGED <<ledger, history, call, local, kernel_lock, height_lock>>

\* lib.rs lines 91-118: the checks under the read guard; the guard is dropped when
\* verify_transaction returns (or unwinds).  The caller then goes on: add_transaction
\* to its mutation, create_block to its next transaction, both whatever the boolean.
verify_body(t) ==
    LET tx == call[t].txs[local[t].i]
        v == verify_transaction_result(utxo_set, parameters, overflow_checks, tx)
    IN /\ pc[t] = "verify_body"
       /\ utxo_lock' = read_unlocked(utxo_lock, t)
       /\ IF v.kind = "panic" \/ call[t].op = "verify_transaction"
          THEN Return(t)
          ELSE IF call[t].op = "add_transaction"
          THEN /\ Goto(t, "add_write_lock")
               /\ local' = [local EXCEPT ![t].verdict = v]
               /\ UNCHANGED call
          ELSE IF local[t].i < Len(call[t].txs)
          THEN /\ Goto(t, "verify_lock")
               /\ local' = [local EXCEPT ![t].i = @ + 1]
               /\ UNCHANGED call
          ELSE /\ Goto(t, "height_lock")
               /\ UNCHANGED <<call, local>>
       /\ UNCHANGED <<ledger, history, kernel_lock, height_lock>>

\* lib.rs line 70: let mut utxo_set = self.utxo_set.write();
add_write_lock(t) ==
    /\ pc[t] = "add_write_lock"
    /\ write_available(utxo_lock)
    /\ utxo_lock' = write_locked(utxo_lock, t)
    /\ Goto(t, "add_retain")
    /\ UNCHANGED <<ledger, history, call, local, kernel_lock, height_lock>>

\* lib.rs lines 71-73
add_retain(t) ==
    /\ pc[t] = "add_retain"
    /\ utxo_set' = remove_inputs(utxo_set, call[t].txs[1].inputs)
    /\ Goto(t, "add_push")
    /\ UNCHANGED <<parameters, block_height, kernel_set, overflow_checks, history,
                   call, local, utxo_lock, kernel_lock, height_lock>>

\* lib.rs lines 76-78
add_push(t) ==
    /\ pc[t] = "add_push"
    /\ utxo_set' = push_outputs(utxo_set, call[t].txs[1].outputs)
    /\ Goto(t, "add_kernel_lock")
    /\ UNCHANGED <<parameters, block_height, kernel_set, overflow_checks, history,
                   call, local, utxo_lock, kernel_lock, height_lock>>

\* lib.rs line 81: let mut kernel_set = self.kernel_set.write();
add_kernel_lock(t) ==
    /\ pc[t] = "add_kernel_lock"
    /\ write_available(kernel_lock)
    /\ kernel_lock' = write_locked(kernel_lock, t)
    /\ Goto(t, "add_kernel")
    /\ UNCHANGED <<ledger, history, call, local, utxo_lock, height_lock>>

\* lib.rs lines 82-85: push the kernel; both write guards are dropped at the return
add_kernel(t) ==
    /\ pc[t] = "add_kernel"
    /\ kernel_set' = Append(kernel_set, call[t].txs[1].kernel)
    /\ kernel_lock' = write_unlocked(kernel_lock, t)
    /\ utxo_lock' = write_unlocked(utxo_lock, t)
    /\ Return(t)
    /\ UNCHANGED <<parameters, block_height, utxo_set, overflow_checks, history, height_lock>>

\* lib.rs lines 128 and 183: *self.block_height.read()
height_lock_step(t) ==
    /\ pc[t] = "height_lock"
    /\ read_available(height_lock)
    /\ height_lock' = read_locked(height_lock, t)
    /\ Goto(t, "height_read")
    /\ UNCHANGED <<ledger, history, call, local, utxo_lock, kernel_lock>>

\* the height is read and the guard dropped; create_block then builds the header
\* and the Merkle root from its own arguments and returns
height_read(t) ==
    /\ pc[t] = "height_read"
    /\ height_lock' = read_unlocked(height_lock, t)
    /\ Return(t)
    /\ UNCHANGED <<ledger, history, utxo_lock, kernel_lock>>

\* lib.rs line 188: self.utxo_set.read().len()
size_lock(t) ==
    /\ pc[t] = "size_lock"
    /\ read_available(utxo_lock)
    /\ utxo_lock' = read_locked(utxo_lock, t)
    /\ Goto(t, "size_read")
    /\ UNCHANGED <<ledger, history, call, local, kernel_lock, height_lock>>

size_read(t) ==
    /\ pc[t] = "size_read"
    /\ utxo_lock' = read_unlocked(utxo_lock, t)
    /\ Return(t)
    /\ UNCHANGED <<ledger, history, kernel_lock, height_lock>>

\* lib.rs line 193: self.kernel_set.read().len()
kernel_size_lock(t) ==
    /\ pc[t] = "kernel_size_lock"
    /\ read_available(kernel_lock)
    /\ kernel_lock' = read_locked(kernel_lock, t)
    /\ Goto(t, "kernel_size_read")
    /\ UNCHANGED <<ledger, history, call, local, utxo_lock, height_lock>>

\* a kernel_set_size that keeps its read guard and goes on to read the
\* unspent-output set: the two locks taken in the order opposite to add_transaction
kernel_size_read_then_utxo(t) ==
    /\ pc[t] = "kernel_size_read"
    /\ Goto(t, "size_lock")
    /\ UNCHANGED <<ledger, history, call, local, utxo_lock, kernel_lock, height_lock>>

kernel_size_read(t) ==
    /\ pc[t] = "kernel_size_read"
    /\ kernel_lock' = read_unlocked(kernel_lock, t)
    /\ Return(t)
    /\ UNCHANGED <<ledger, history, utxo_lock, height_lock>>

CallAddTransaction == \E t \in Threads, tx \in ConcTransactions : call_add_transaction(t, tx)
CallVerifyTransaction == \E t \in Threads, tx \in ConcTransactions : call_verify_transaction(t, tx)
CallCreateBlock == \E t \in Threads, txs \in ConcBatches : call_create_block(t, txs)
CallBlockHeight == \E t \in Threads : call_getter(t, "block_height", "height_lock")
CallUtxoSetSize == \E t \in Threads : call_getter(t, "utxo_set_size", "size_lock")
CallKernelSetSize == \E t \in Threads : call_getter(t, "kernel_set_size", "kernel_size_lock")
VerifyLock == \E t \in Threads : verify_lock(t)
VerifyBody == \E t \in Threads : verify_body(t)
AddWriteLock == \E t \in Threads : add_write_lock(t)
AddRetain == \E t \in Threads : add_retain(t)
AddPush == \E t \in Threads : add_push(t)
AddKernelLock == \E t \in Threads : add_kernel_lock(t)
AddKernel == \E t \in Threads : add_kernel(t)
HeightLock == \E t \in Threads : height_lock_step(t)
HeightRead == \E t \in Threads : height_read(t)
SizeLock == \E t \in Threads : size_lock(t)
SizeRead == \E t \in Threads : size_read(t)
KernelSizeLock == \E t \in Threads : kernel_size_lock(t)
KernelSizeRead == \E t \in Threads : kernel_size_read(t)

NextConc ==
    \/ CallAddTransaction
    \/ CallVerifyTransaction
    \/ CallCreateBlock
    \/ CallBlockHeight
    \/ CallUtxoSetSize
    \/ CallKernelSetSize
    \/ VerifyLock
    \/ VerifyBody
    \/ AddWriteLock
    \/ AddRetain
    \/ AddPush
    \/ AddKernelLock
    \/ AddKernel
    \/ HeightLock
    \/ HeightRead
    \/ SizeLock
    \/ SizeRead
    \/ KernelSizeLock
    \/ KernelSizeRead

SpecConc == Init /\ [][NextConc]_vars

----
(* Claims about the ledger operations, one caller (specification Spec) *)

Digests(cs) == {cs[i].commitment : i \in 1..Len(cs)}

\* the sum of the amounts of a sequence of commitments, as a mathematical integer
RECURSIVE ExactSum(_)
ExactSum(cs) == IF cs = <<>> THEN 0 ELSE cs[1].value + ExactSum(Tail(cs))

ExactBalanced(tx) == ExactSum(tx.inputs) = ExactSum(tx.outputs) + tx.fee

LedgerUnchanged == Snapshot = pre

\* C1: add_transaction of a transaction with an input whose digest is not in the
\* unspent-output set reports rejection and leaves the unspent-output set, the
\* kernel history and the block height as they were.
C1_MissingInputRejected ==
    (/\ last.op = "add_transaction"
     /\ ~(Digests(last.txs[1].inputs) \subseteq Digests(pre.utxo_set)))
        => (last.kind # "Ok" /\ LedgerUnchanged)

\* the inputs of tx1 and tx2 share a digest that is unspent in utxos and that tx1
\* does not create again
SpendSameOutput(tx1, tx2, utxos) ==
    \E d \in Digests(tx1.inputs) \cap Digests(tx2.inputs) :
        d \in Digests(utxos) /\ d \notin Digests(tx1.outputs)

\* C2: of two transactions spending the same unspent output, submitted to
\* add_transaction one after the other, the first (a valid one) succeeds and the
\* second is rejected.
C2_DoubleSpendRejected ==
    [][(/\ last.op = "add_transaction"
        /\ last.verdict = OkBool(TRUE, FALSE)
        /\ last'.op = "add_transaction"
        /\ SpendSameOutput(last.txs[1], last'.txs[1], pre.utxo_set))
            => (last.kind = "Ok" /\ last'.kind # "Ok")]_vars

\* C3: every transaction add_transaction accepts satisfies
\* sum(input amounts) = sum(output amounts) + fee.
C3_AcceptedBalanced ==
    (last.op = "add_transaction" /\ last.kind = "Ok") => ExactBalanced(last.txs[1])

\* C8: no commitment digest appears more than once in the unspent-output set.
C8_NoDuplicateDigests ==
    \A i, j \in 1..Len(utxo_set) :
        i # j => utxo_set[i].commitment # utxo_set[j].commitment

\* C9: verify_transaction is read-only: whatever its result, the unspent-output
\* set, the kernel history and the block height are the same before and after.
C9_VerifyReadOnly ==
    last.op = "verify_transaction" => LedgerUnchanged

\* a verification that accepted a transaction spending an unspent output
C9_Witness ==
    /\ last.op = "verify_transaction"
    /\ last.verdict = OkBool(TRUE, FALSE)
    /\ last.txs[1].inputs # <<>>
    /\ utxo_set # <<>>

\* C10: create_block leaves the stored block height, the unspent-output set and the
\* kernel history as they were before the call.
C10_CreateBlockFrame ==
    last.op = "create_block" => LedgerUnchanged

\* a block of two transactions assembled on a ledger that holds outputs and kernels
C10_Witness ==
    /\ last.op = "create_block"
    /\ last.kind = "Ok"
    /\ Len(last.block.transactions) = 2
    /\ utxo_set # <<>>
    /\ kernel_set # <<>>

\* C11: create_block validates every transaction of the batch: every transaction
\* of a block it returns is one that verify_transaction accepts on the ledger at
\* assembly time.
C11_BlockTransactionsVerified ==
    (last.op = "create_block" /\ last.kind = "Ok")
        => \A i \in 1..Len(last.block.transactions) :
              LET v == verify_transaction_result(pre.utxo_set, parameters,
                                                 overflow_checks,
                                                 last.block.transactions[i])
              IN v.kind = "Ok" /\ v.value

IsPrefix(s, t) == Len(s) <= Len(t) /\ SubSeq(t, 1, Len(s)) = s

\* C12: the kernel history is append-only: after every operation it has the kernel
\* history before the operation as a prefix, and an accepted add_transaction
\* appends exactly the kernel of its transaction at the end.
C12_KernelHistoryAppendOnly ==
    /\ IsPrefix(pre.kernel_set, kernel_set)
    /\ (last.op = "add_transaction" /\ last.kind = "Ok")
          => kernel_set = Append(pre.kernel_set, last.txs[1].kernel)
    /\ last.op # "add_transaction" => kernel_set = pre.kernel_set

\* a kernel appended behind a different kernel
C12_Witness ==
    /\ last.op = "add_transaction"
    /\ last.kind = "Ok"
    /\ Len(kernel_set) >= 2
    /\ kernel_set[Len(kernel_set)] = last.txs[1].kernel
    /\ kernel_set[Len(kernel_set) - 1] # last.txs[1].kernel

\* C13: for a batch of exactly one transaction the Merkle root of the block is
\* digest(leaf || leaf), the leaf being the digest of the serialized transaction.
C13_SingleLeafSelfPaired ==
    (last.op = "create_block" /\ last.kind = "Ok" /\ Len(last.txs) = 1)
        => LET leaf == Blake3(<<"bincode", last.txs[1]>>)
           IN last.block.header.merkle_root = Blake3(<<"pair", leaf, leaf>>)

\* C17: an accepted add_transaction leaves the unspent-output set equal to the
\* previous one without the entries whose digest is the digest of an input and with
\* the outputs inserted, the kernel history with the kernel appended, and the block
\* height unchanged.
C17_AddTransactionEffect ==
    (last.op = "add_transaction" /\ last.kind = "Ok")
        => /\ utxo_set =
                SelectSeq(pre.utxo_set,
                          LAMBDA u : u.commitment \notin Digests(last.txs[1].inputs))
                    \o last.txs[1].outputs
           /\ kernel_set = pre.kernel_set \o <<last.txs[1].kernel>>
           /\ block_height = pre.block_height

\* a spend that removed two entries with the digest of its input
C17_Witness ==
    /\ last.op = "add_transaction"
    /\ last.kind = "Ok"
    /\ last.txs[1].inputs # <<>>
    /\ last.txs[1].outputs # <<>>
    /\ Len(pre.utxo_set) = 2
    /\ Len(utxo_set) = 1

VerifiesAtAssembly(tx) ==
    LET v == verify_transaction_result(pre.utxo_set, parameters, overflow_checks, tx)
    IN v.kind = "Ok" /\ v.value

SpendOneOutput(tx1, tx2) ==
    Digests(tx1.inputs) \cap Digests(tx2.inputs) \cap Digests(pre.utxo_set) # {}

\* C21: create_block does not detect double-spends inside one batch: when two
\* transactions of the batch each verify against the current unspent-output set and
\* both spend the same unspent output (and no verification of the batch ends in an
\* error), create_block returns a block that contains the whole batch, both included.
C21_BatchDoubleSpendAccepted ==
    (/\ last.op = "create_block"
     /\ \A k \in 1..Len(last.txs) :
           verify_transaction_result(pre.utxo_set, parameters, overflow_checks,
                                     last.txs[k]).kind = "Ok"
     /\ \E i, j \in 1..Len(last.txs) :
           /\ i < j
           /\ VerifiesAtAssembly(last.txs[i])
           /\ VerifiesAtAssembly(last.txs[j])
           /\ SpendOneOutput(last.txs[i], last.txs[j]))
        => /\ last.kind = "Ok"
           /\ last.block.transactions = last.txs

\* a block with two different transactions that both verify and both spend cA
C21_Witness ==
    /\ last.op = "create_block"
    /\ last.kind = "Ok"
    /\ Len(last.block.transactions) = 2
    /\ last.block.transactions[1] # last.block.transactions[2]
    /\ VerifiesAtAssembly(last.block.transactions[1])
    /\ VerifiesAtAssembly(last.block.transactions[2])
    /\ SpendOneOutput(last.block.transactions[1], last.block.transactions[2])

----
(* Claims about verify_transaction as a function (specification SpecVerify) *)

\* some sum of the balance check leaves the range of an amount
ExactOverflow(tx) ==
    \/ ExactSum(tx.inputs) >= Modulus
    \/ ExactSum(tx.outputs) >= Modulus
    \/ ExactSum(tx.outputs) + tx.fee >= Modulus

AllInputsUnspent(tx) == Digests(tx.inputs) \subseteq Digests(utxo_set)

AllRangeProofsVerify(tx) ==
    \A c \in Range(tx.outputs) :
        c.range_proof.proof_data.len >= parameters.range_proof_bits \div 8

KernelWellFormed(tx) == tx.kernel.excess.len > 0 /\ tx.kernel.signature.len > 0

\* C6: without overflow, verify_transaction returns Ok(true) exactly when every
\* input is unspent, the balance holds, every output's range proof verifies and the
\* kernel verifies; otherwise it returns Ok(false), never an error.
C6_VerifyExact ==
    (/\ last.op = "verify_transaction"
     /\ last.kind # "pending"
     /\ ~ExactOverflow(last.txs[1]))
        => /\ last.kind = "Ok"
           /\ last.verdict.kind = "Ok"
           /\ last.verdict.value =
                (/\ AllInputsUnspent(last.txs[1])
                 /\ ExactBalanced(last.txs[1])
                 /\ AllRangeProofsVerify(last.txs[1])
                 /\ KernelWellFormed(last.txs[1]))

\* a transaction with an input and an output that was accepted
C6_Witness ==
    /\ last.op = "verify_transaction"
    /\ last.kind = "Ok"
    /\ ~ExactOverflow(last.txs[1])
    /\ last.txs[1].inputs # <<>>
    /\ last.txs[1].outputs # <<>>
    /\ last.verdict.value

\* C7: when a sum of the balance check exceeds the range of an amount,
\* verify_transaction fails: it does not accept the transaction and does not
\* compare sums that have wrapped.
C7_OverflowIsFailure ==
    (/\ last.op = "verify_transaction"
     /\ last.kind # "pending"
     /\ ExactOverflow(last.txs[1]))
        => (last.verdict # OkBool(TRUE, TRUE) /\ ~last.verdict.wrapped)

----
(* Claims about concurrent callers (specification SpecConc) *)

\* the thread has passed the verification of its add_transaction and has not yet
\* taken the write guard
VerifiedNotApplied(t) ==
    /\ call[t].op = "add_transaction"
    /\ pc[t] = "add_write_lock"
    /\ local[t].verdict = OkBool(TRUE, FALSE)

\* C4: add_transaction holds exclusive access across its verify-then-mutate
\* sequence: two concurrent transactions spending the same input never both pass
\* verification before either mutates.
C4_VerifyThenMutateAtomic ==
    \A t, u \in Threads :
        (t # u /\ VerifiedNotApplied(t) /\ VerifiedNotApplied(u))
            => Digests(call[t].txs[1].inputs) \cap Digests(call[u].txs[1].inputs) = {}

\* the thread holds the write guard of utxo_set: the mutation section of add_transaction
InMutation(t) == pc[t] \in {"add_retain", "add_push", "add_kernel_lock", "add_kernel"}

\* the thread reads utxo_set under a read guard (verify_transaction, utxo_set_size)
InUtxoRead(t) == pc[t] \in {"verify_body", "size_read"}

\* C5: the mutation section of an add_transaction never overlaps the mutation
\* section of another add_transaction, nor a read of the unspent-output set by
\* verify_transaction or utxo_set_size.
C5_WritesExclusive ==
    \A t, u \in Threads :
        (t # u /\ InMutation(t)) => (~InMutation(u) /\ ~InUtxoRead(u))

\* one thread is mutating while another waits for the lock of utxo_set, one as a
\* reader or one as a writer
C5_Witness ==
    \E t, u \in Threads :
        /\ t # u
        /\ InMutation(t)
        /\ pc[u] \in {"verify_lock", "size_lock", "add_write_lock"}

\* reads do overlap: two threads inside the read section
C5_ReadsOverlap ==
    \E t, u \in Threads : t # u /\ InUtxoRead(t) /\ InUtxoRead(u)

----
(* Concurrent callers under fair scheduling (specification SpecConcFair): a thread  *)
(* inside a call is scheduled again and again, and parking_lot's RwLock is fair: a  *)
(* thread whose lock is free again and again gets it.                               *)

\* the steps of thread t inside a call
Progress(t) ==
    \/ verify_lock(t)
    \/ verify_body(t)
    \/ add_write_lock(t)
    \/ add_retain(t)
    \/ add_push(t)
    \/ add_kernel_lock(t)
    \/ add_kernel(t)
    \/ height_lock_step(t)
    \/ height_read(t)
    \/ size_lock(t)
    \/ size_read(t)
    \/ kernel_size_lock(t)
    \/ kernel_size_read(t)

Fairness == \A t \in Threads : SF_vars(Progress(t))

\* the locks a call takes do not depend on its transaction: one transaction is enough
FairCallAddTransaction == \E t \in Threads : call_add_transaction(t, TxSpend)
FairCallVerifyTransaction == \E t \in Threads : call_verify_transaction(t, TxSpend)

NextFair ==
    \/ FairCallAddTransaction
    \/ FairCallVerifyTransaction
    \/ CallCreateBlock
    \/ CallBlockHeight
    \/ CallUtxoSetSize
    \/ CallKernelSetSize
    \/ \E t \in Threads : Progress(t)

SpecConcFair == Init /\ [][NextFair]_vars /\ Fairness

----
(* create_block between the add_transaction calls of other callers (specification *)
(* SpecBlocks): the blocks are assembled while no other call is in progress.       *)

Quiet == \A t \in Threads : pc[t] = "idle"

CreateBlockQuiet ==
    /\ Quiet
    /\ \E txs \in ConcBatches, now \in Times : create_block(txs, now)

NextBlocks ==
    \/ CreateBlockQuiet
    \/ CallAddTransaction
    \/ VerifyLock
    \/ VerifyBody
    \/ AddWriteLock
    \/ AddRetain
    \/ AddPush
    \/ AddKernelLock
    \/ AddKernel

SpecBlocks == Init /\ [][NextBlocks]_vars

----
(* The digests of serialized values (specification SpecDigest): Transaction::hash, *)
(* the Merkle leaf of compute_merkle_root and BlockHeader::hash.  bincode::serialize *)
(* returns a Result; each of the three unwraps it with unwrap_or_default().          *)

SerializerOutcomes == {"Ok", "Err"}

\* bincode::serialize(x): Result<Vec<u8>>
bincode_serialize(x, outcome) ==
    IF outcome = "Ok" THEN [kind |-> "Ok", bytes |-> serialize(x)]
    ELSE [kind |-> "Err"]

\* Result::unwrap_or_default: the bytes, or Vec::default() (no byte) on an Err
unwrap_or_default(result) ==
    IF result.kind = "Ok" THEN result.bytes ELSE <<>>

\* hasher.update(&bincode::serialize(x).unwrap_or_default()); hasher.finalize()
hash(x, outcome) == Blake3(unwrap_or_default(bincode_serialize(x, outcome)))

\* the outcome of the serializer, kept with the completed call
Serialized(outcome) == [value |-> FALSE, wrapped |-> FALSE, kind |-> outcome]

BlockHeaders ==
    {[version |-> MIMBLEWIMBLE_VERSION,
      height |-> 0,
      timestamp |-> now,
      previous_hash |-> ZeroDigest,
      merkle_root |-> compute_merkle_root(transactions)] :
        now \in Times, transactions \in Batches}

InitDigest ==
    /\ parameters = DefaultParameters
    /\ block_height = new(parameters).block_height
    /\ utxo_set = new(parameters).utxo_set
    /\ kernel_set = new(parameters).kernel_set
    /\ overflow_checks \in BOOLEAN
    /\ \/ \E tx \in LedgerTransactions :
             last = Done("Transaction::hash", <<tx>>, "pending", NoVerdict, 0, NoBlock)
       \/ \E tx \in LedgerTransactions :
             last = Done("compute_merkle_root", <<tx>>, "pending", NoVerdict, 0, NoBlock)
       \/ \E header \in BlockHeaders :
             last = Done("BlockHeader::hash", <<header>>, "pending", NoVerdict, 0, NoBlock)
    /\ pre = Snapshot
    /\ InitThreads

\* the three digests return Vec<u8>: the call is Ok whatever the serializer returned
digest_call(op) ==
    /\ last.kind = "pending"
    /\ last.op = op
    /\ pre' = Snapshot
    /\ \E outcome \in SerializerOutcomes :
          last' = Done(op, last.txs, "Ok", Serialized(outcome),
                       hash(last.txs[1], outcome), NoBlock)
    /\ UNCHANGED ledger
    /\ UNCHANGED threads

\* transaction.rs lines 50-55
TransactionHash == digest_call("Transaction::hash")

\* lib.rs lines 154-161 and 178: the root of a batch of one transaction is its leaf
MerkleLeafHash == digest_call("compute_merkle_root")

\* block.rs lines 27-32
BlockHeaderHash == digest_call("BlockHeader::hash")

NextDigest == TransactionHash \/ MerkleLeafHash \/ BlockHeaderHash

SpecDigest == InitDigest /\ [][NextDigest]_vars

----
(* Claims about concurrent callers under fair scheduling (specification SpecConcFair) *)

\* thread t is stopped at a lock that thread u holds
WaitsFor(t, u) ==
    \/ pc[t] \in {"verify_lock", "size_lock"} /\ utxo_lock.writer = u
    \/ pc[t] = "add_write_lock" /\ (utxo_lock.writer = u \/ u \in utxo_lock.readers)
    \/ pc[t] = "add_kernel_lock" /\ (kernel_lock.writer = u \/ u \in kernel_lock.readers)
    \/ pc[t] = "kernel_size_lock" /\ kernel_lock.writer = u
    \/ pc[t] = "height_lock" /\ height_lock.writer = u

\* two callers waiting on each other's locks (Threads has two elements)
WaitCycle == \E t, u \in Threads : t # u /\ WaitsFor(t, u) /\ WaitsFor(u, t)

\* C24: deadlock freedom: no reachable state has callers waiting on each other's
\* locks in a cycle, and under fair scheduling every call of add_transaction,
\* verify_transaction, create_block, block_height, utxo_set_size and kernel_set_size
\* eventually completes.
C24_DeadlockFree ==
    /\ [](~WaitCycle)
    /\ \A t \in Threads : (pc[t] # "idle") ~> (pc[t] = "idle")

\* an add_transaction that holds the write lock of the unspent-output set and is
\* stopped at the kernel-history lock, which another caller holds
C24_Witness ==
    \E t, u \in Threads :
        /\ t # u
        /\ pc[t] = "add_kernel_lock"
        /\ utxo_lock.writer = t
        /\ WaitsFor(t, u)
----
(* Claims about parameters, construction and range proofs (specification SpecParams) *)

\* C14: RangeProof round trip: for every amount and every Parameters value with
\* range_proof_bits >= 32, whatever the bit width, create(amount, params) followed by
\* verify(params) returns true.
C14_RangeProofRoundTrip ==
    (last.op = "range_proof" /\ parameters.range_proof_bits >= 32)
        => last.verdict = OkBool(TRUE, FALSE)

SomeBoundViolated(p) ==
    \/ p.range_proof_bits < 32
    \/ p.max_transaction_size = 0
    \/ p.max_block_size < p.max_transaction_size
    \/ p.target_block_time = 0
    \/ p.difficulty_adjustment_interval = 0

\* C15: validate fails with InvalidParameter exactly when at least one bound is
\* violated and succeeds otherwise; the default parameters pass, range_proof_bits = 16
\* fails, and max_block_size < max_transaction_size fails.
C15_ValidateExact ==
    last.op = "validate"
        => /\ last.kind \in {"Ok", "InvalidParameter"}
           /\ last.kind = "InvalidParameter" <=> SomeBoundViolated(parameters)
           /\ parameters = DefaultParameters => last.kind = "Ok"
           /\ parameters.range_proof_bits = 16 => last.kind = "InvalidParameter"
           /\ parameters.max_block_size < parameters.max_transaction_size
                 => last.kind = "InvalidParameter"

\* a validation that fails on the comparison of the two size limits alone
C15_Witness ==
    /\ last.op = "validate"
    /\ last.kind = "InvalidParameter"
    /\ parameters.range_proof_bits >= 32
    /\ parameters.max_transaction_size # 0
    /\ parameters.max_block_size < parameters.max_transaction_size
    /\ parameters.target_block_time # 0
    /\ parameters.difficulty_adjustment_interval # 0

\* C16: new(params) returns an error and creates no ledger exactly when
\* params.validate() fails; when it succeeds the initial state has block height 0,
\* an empty unspent-output set and an empty kernel history.
C16_ConstructionFailsFast ==
    last.op = "new"
        => /\ last.kind # "Ok" <=> validate(parameters) # "Ok"
           /\ last.kind # "Ok" => Snapshot = NoLedger
           /\ last.kind = "Ok"
                 => block_height = 0 /\ utxo_set = <<>> /\ kernel_set = <<>>

\* a construction refused for a bound other than the bit width
C16_Witness ==
    /\ last.op = "new"
    /\ last.kind = "InvalidParameter"
    /\ parameters.range_proof_bits >= 32
    /\ Snapshot = NoLedger

----
(* Claims about the Merkle root (specifications SpecMerkle and SpecBlocks) *)

Leaf(tx) == [len |-> 32, val |-> <<"blake3", <<"bincode", tx>>>>]
Combine(left, right) == [len |-> 32, val |-> <<"blake3", <<"pair", left, right>>>>]

\* one pass of the reference reduction: consecutive pairs, the odd last element
\* paired with itself
RECURSIVE ReferencePass(_)
ReferencePass(h) ==
    IF h = <<>> THEN <<>>
    ELSE IF Len(h) = 1 THEN <<Combine(h[1], h[1])>>
    ELSE <<Combine(h[1], h[2])>> \o ReferencePass(SubSeq(h, 3, Len(h)))

RECURSIVE ReferenceReduction(_)
ReferenceReduction(h) ==
    IF Len(h) = 1 THEN h[1] ELSE ReferenceReduction(ReferencePass(h))

\* C18: the Merkle root of an empty transaction sequence is the 32-byte all-zero
\* digest, and the root of a sequence of two or more transactions is the reference
\* reduction of its leaf digests, taken in sequence order.
C18_MerkleReferenceReduction ==
    (last.op = "create_block" /\ last.kind = "Ok")
        => LET root == last.block.header.merkle_root
               leaves == [i \in 1..Len(last.txs) |-> Leaf(last.txs[i])]
           IN /\ last.txs = <<>> => root = [len |-> 32, val |-> <<"zero">>]
              /\ Len(last.txs) >= 2 => root = ReferenceReduction(leaves)

\* a batch with an odd element out in its first pass and in its second pass
C18_Witness ==
    /\ last.op = "create_block"
    /\ last.kind = "Ok"
    /\ Len(last.txs) = 5
    /\ last.txs[5] # last.txs[4]
    /\ last.block.header.merkle_root.len = 32

\* C19: two create_block calls given the same transaction sequence produce the same
\* merkle_root, whatever the unspent-output set, the kernel history, the block
\* height and the time at each call.
C19_RootIsFunctionOfSequence ==
    [][(/\ last.op = "create_block" /\ last.kind = "Ok"
        /\ last'.op = "create_block" /\ last'.kind = "Ok"
        /\ last'.txs = last.txs)
          => last'.block.header.merkle_root = last.block.header.merkle_root]_vars

\* a block of a non-empty batch assembled at the later time on a ledger that holds
\* unspent outputs and kernels
C19_Witness ==
    /\ last.op = "create_block"
    /\ last.kind = "Ok"
    /\ last.txs # <<>>
    /\ last.block.header.timestamp = 2
    /\ utxo_set # <<>>
    /\ kernel_set # <<>>

\* the bijections of 1..n, for every length of a batch
BatchPermutations ==
    [n \in 0..MaxMerkle |->
        {f \in [1..n -> 1..n] : \A i, j \in 1..n : f[i] = f[j] => i = j}]

\* C20: the Merkle root is order-sensitive: every permutation of the batch that puts
\* a different transaction at some position has a different root.
C20_MerkleOrderSensitive ==
    (last.op = "create_block" /\ last.kind = "Ok")
        => \A f \in BatchPermutations[Len(last.txs)] :
              LET permuted == [i \in 1..Len(last.txs) |-> last.txs[f[i]]]
              IN permuted # last.txs
                    => compute_merkle_root(permuted) # last.block.header.merkle_root

\* a batch of two different transactions, whose reversal is a different sequence
C20_Witness ==
    /\ last.op = "create_block"
    /\ last.kind = "Ok"
    /\ Len(last.txs) = 2
    /\ last.txs[1] # last.txs[2]

----
(* Claims about the digests of serialized values (specification SpecDigest) *)

\* C22: if serializing a transaction or a block header fails during a digest
\* computation (Merkle leaf hash, transaction hash, block-header hash), the failure is
\* returned to the caller as an error, never the digest of an empty byte sequence.
C22_SerializationFailurePropagates ==
    (/\ last.op \in {"Transaction::hash", "compute_merkle_root", "BlockHeader::hash"}
     /\ last.kind # "pending"
     /\ last.verdict.kind = "Err")
        => last.kind # "Ok"

----
(* Claims about the value held by the ledger (specification SpecApply) *)

\* C23: value conservation: when verify_transaction returns true for a transaction on
\* a ledger and add_transaction applies it, the total of the amounts stored in the
\* unspent-output set is the previous total minus the fee of the transaction.
C23_ValueConserved ==
    (/\ last.op = "add_transaction"
     /\ last.kind = "Ok"
     /\ last.verdict.kind = "Ok"
     /\ last.verdict.value)
        => ExactSum(utxo_set) = ExactSum(pre.utxo_set) - last.txs[1].fee

====
